---- MODULE Spec2Model ----
(***************************************************************************)
(* Household prosumer attack model (src/model.py): the HouseModel builder  *)
(* around an external LP/MILP solver, and the Control orchestration        *)
(* (primal_model, dual_model, bigM_attack, sos_attack, get_ub_valid_ineq,  *)
(* sos_valid_ineq_attack, PADM_attack).                                    *)
(*                                                                         *)
(* Numbers are integers.  The solver is external: a solve picks a status   *)
(* and, when a solution exists, an assignment among candidate assignments  *)
(* that satisfy the constraints the model can evaluate (variable bounds of *)
(* delta, the demand_change row, the pin rows of fix_vars).  A candidate   *)
(* gives every primal variable the value X.primal, the dual equality       *)
(* multipliers the value X.dual and the dual limit multipliers -X.dual,    *)
(* and delta the vector X.upper_level (abs = |delta|).                     *)
(***************************************************************************)
EXTENDS Integers, Sequences, FiniteSets, TLC

VARIABLES
    house_params,   \* Control.house_params
    attack_params,  \* Control.attack_params
    models,         \* live HouseModel objects, by object identity
    stack,          \* call stack of Control operations, innermost last
    ret,            \* what the last finished operation returned or raised
    out,            \* values printed by the current / last operation (the result
                    \* lines; PADM's progress lines "j = ", "i = " are left out)
    cs_in,          \* complementarity check: the drawn input
    cs_out,         \* complementarity check: verdict of each encoding
    lp              \* dispatch LP: a house, a side (primal or dual) and the values
                    \* given so far to that side's variables, by variable

vars == <<house_params, attack_params, models, stack, ret, out, cs_in, cs_out, lp>>

-----------------------------------------------------------------------------
(* Bounds of the model *)

MaxH == 2       \* longest demand / PV-availability vector
MaxVal == 1     \* largest value the solver assigns to a primal or dual variable
MaxPenaltyIter == 2     \* largest PADM_Params.max_penalty_iter
MaxStationaryIter == 2  \* largest PADM_Params.max_stationary_iter
MaxFix == 2     \* fix_vars calls in a fix/release sequence

None == "None"

\* an optional number (float|None): <<>> for None, <<v>> for the number v
NoValue == <<>>

Some(v) == <<v>>

Abs(x) == IF x < 0 THEN -x ELSE x

Max(a, b) == IF a >= b THEN a ELSE b

RECURSIVE SeqSum(_)
SeqSum(s) == IF s = <<>> THEN 0 ELSE Head(s) + SeqSum(Tail(s))

\* Python's max() of a non-empty sequence
RECURSIVE SeqMax(_)
SeqMax(s) == IF Len(s) = 1 THEN s[1] ELSE Max(s[1], SeqMax(Tail(s)))

Fill(n, v) == [i \in 1..n |-> v]

-----------------------------------------------------------------------------
(* Parameter containers *)

cost_PV(hp) == hp.price_PV \div hp.life_time

cost_battery(hp) == hp.price_battery \div hp.life_time

hours_num(hp) == Len(hp.demands)

HouseParams(d, pv) ==
    [life_time |-> 1, price_PV |-> 1, price_battery |-> 1, cost_buy |-> 2,
     sell_price |-> 1, total_demand |-> 2, demands |-> d,
     PV_availabilities |-> pv]

AttackParams(lb, ub) ==
    [capacity_battery |-> NoValue, capacity_PV |-> NoValue, lb |-> lb, ub |-> ub,
     norm |-> 1, total_delta_ub |-> "inf"]

PADM_Params(pen, stat) ==
    [initial_mu |-> 1, increase_factor |-> 2, max_penalty_iter |-> pen,
     max_stationary_iter |-> stat, stationary_error |-> 1,
     penalty_error |-> [num |-> 1, den |-> 10000]]

\* the configurations a caller may hand to Control: nothing validates them
HouseParamsSet ==
    {HouseParams(Fill(n, 1), Fill(k, 1)) : n \in 1..MaxH, k \in 1..MaxH}

AttackParamsSet == {AttackParams(-1, 1), AttackParams(0, 0), AttackParams(1, -1)}

PADMParamsSet == {PADM_Params(MaxPenaltyIter, MaxStationaryIter)}

-----------------------------------------------------------------------------
(* Variable groups and their families (HouseModel.add_vars) *)

Groups == {"upper_level", "primal", "dual", "aux", "cs"}

\* groups whose values some operation reads or pins
ValueGroups == {"upper_level", "primal", "dual"}

GroupKeys(name) ==
    CASE name = "upper_level" -> {"delta", "abs"}
      [] name = "primal" ->
            {"energy_PV", "energy_battery", "energy_battery_in",
             "energy_battery_out", "energy_buy", "energy_sell",
             "capacity_battery", "capacity_PV"}
      [] name = "dual" -> {"limit_battery", "limit_PV", "eq_battery", "eq_demand"}
      [] name = "aux" ->
            {"limit_PV", "limit_battery", "slack_limit_PV", "slack_limit_battery",
             "slack_energy_buy", "slack_energy_sell", "slack_energy_battery_out",
             "slack_energy_battery_in", "slack_energy_battery", "slack_energy_PV",
             "slack_capacity_PV", "slack_capacity_battery"}
      [] name = "cs" ->
            {"limit_PV", "limit_battery", "energy_buy", "energy_sell",
             "energy_battery_out", "energy_battery_in", "energy_battery",
             "energy_PV", "capacity_PV", "capacity_battery"}

\* families created with addVar (a single gp.Var) rather than addVars
ScalarKeys ==
    {"capacity_battery", "capacity_PV", "slack_capacity_PV", "slack_capacity_battery"}

-----------------------------------------------------------------------------
(* HouseModel *)

NoX == [upper_level |-> <<>>, primal |-> 0, dual |-> 0]

NoObjective == [expr |-> "none", sense |-> "MINIMIZE", arg |-> 0]

\* HouseModel.__init__
NewHouseModel(hp, ap) ==
    [house_params |-> hp, attack_params |-> ap,
     vars |-> {},                  \* keys of self.vars
     obj |-> {},                   \* keys of self.obj
     constrs |-> {},               \* rows registered in self.constrs, "group.name"
     battery |-> {},               \* per battery-balance row and hour: the variables
                                   \* it takes at the predecessor hour
     fix |-> <<>>,                 \* self.constrs["fix"]: group -> pin row ids
     pins |-> {},                  \* pin rows held by the solver model
     sos |-> {},                   \* SOS1 sets held by the solver model
     sosreg |-> <<>>,              \* self.constrs["sos"]: name -> number of sets
     M |-> None,                   \* constant of the big-M rows
     cut |-> None,                 \* ub vector of the valid-inequality row
     objective |-> NoObjective,    \* what model.setObjective was last given
     params |-> {},                \* solver parameters set
     status |-> "LOADED", X |-> NoX,
     read |-> FALSE]               \* a solution attribute was queried since the last optimize

HasSol(m) == m.status \in {"OPTIMAL", "SUBOPTIMAL"}

\* HouseModel.add_vars
add_vars(m) == [m EXCEPT !.vars = Groups]

AddRows(m, group, names) ==
    [m EXCEPT !.constrs = @ \cup {<<group, n>> : n \in names}]

\* PV_availabilities[i] is indexed for every i in range(hours_num)
PVIndexOK(hp) == Len(hp.PV_availabilities) >= hours_num(hp)

\* range(n)[k] with a negative k taken as 0
RangeItemClamped(n, k) == IF k < 0 THEN 0 ELSE k

\* range(n)[k]: Python indexing, a negative k counting from the end
RangeItem(n, k) == IF k < 0 THEN n + k ELSE k

\* the rows that couple hour i to its predecessor, with the variables they
\* index by range(hours_num)[i-1]:
\*   primal eq_battery[i] (lines 152-160): energy_battery
\*   dual energy_battery[i] (lines 211-219): eq_battery and limit_battery
\*   aux slack_energy_battery[i] (lines 308-316): eq_battery and limit_battery
BatteryRows(group, H) ==
    CASE group = "primal" ->
            {[row |-> <<"primal", "eq_battery">>, i |-> i,
              uses |-> {<<"primal", "energy_battery", RangeItem(H, i - 1)>>}]
                : i \in 0..(H - 1)}
      [] group = "dual" ->
            {[row |-> <<"dual", "energy_battery">>, i |-> i,
              uses |-> {<<"dual", "eq_battery", RangeItem(H, i - 1)>>,
                        <<"dual", "limit_battery", RangeItem(H, i - 1)>>}]
                : i \in 0..(H - 1)}
      [] group = "aux" ->
            {[row |-> <<"aux", "slack_energy_battery">>, i |-> i,
              uses |-> {<<"dual", "eq_battery", RangeItem(H, i - 1)>>,
                        <<"dual", "limit_battery", RangeItem(H, i - 1)>>}]
                : i \in 0..(H - 1)}

\* HouseModel.add_upper_level_constrs
add_upper_level_constrs(m) ==
    LET ap == m.attack_params
        names == {"demand_change", "abs"}
                 \cup (IF ap.capacity_battery # NoValue THEN {"capacity_battery"} ELSE {})
                 \cup (IF ap.capacity_PV # NoValue THEN {"capacity_PV"} ELSE {})
    IN [AddRows(m, "upper_level", names) EXCEPT !.obj = @ \cup {"upper_level"}]

\* HouseModel.add_primal_constrs
add_primal_constrs(m) ==
    [AddRows(m, "primal", {"eq_demand", "eq_battery", "limit_PV", "limit_battery"})
        EXCEPT !.obj = @ \cup {"primal"},
               !.battery = @ \cup BatteryRows("primal", hours_num(m.house_params))]

\* HouseModel.add_dual_constrs
add_dual_constrs(m) ==
    [AddRows(m, "dual", {"energy_buy", "energy_sell", "energy_battery_out",
                         "energy_battery_in", "energy_battery", "energy_PV",
                         "capacity_battery", "capacity_PV"})
        EXCEPT !.obj = @ \cup {"dual"},
               !.battery = @ \cup BatteryRows("dual", hours_num(m.house_params))]

\* HouseModel.add_aux_constrs
add_aux_constrs(m) ==
    [AddRows(m, "aux", GroupKeys("aux"))
        EXCEPT !.battery = @ \cup BatteryRows("aux", hours_num(m.house_params))]

-----------------------------------------------------------------------------
(* Complementarity pairs.  A variable is <<group, family, index>>, the index *)
(* being Python's: 0..H-1 for a family made by addVars, 0 for a single Var. *)

\* add_bigM_constrs, the hour-indexed families:
\* <<name, group of the "var" side, family of the "var" side, index offset, slack family>>
BigMFamilies(batteryOffset) ==
    {<<"limit_PV", "aux", "limit_PV", 0, "slack_limit_PV">>,
     <<"limit_battery", "aux", "limit_battery", 0, "slack_limit_battery">>,
     <<"energy_buy", "primal", "energy_buy", 0, "slack_energy_buy">>,
     <<"energy_sell", "primal", "energy_sell", 0, "slack_energy_sell">>,
     <<"energy_battery_out", "primal", "energy_battery_out", 0, "slack_energy_battery_out">>,
     <<"energy_battery_in", "primal", "energy_battery_in", 0, "slack_energy_battery_in">>,
     <<"energy_battery", "primal", "energy_battery", batteryOffset, "slack_energy_battery">>,
     <<"energy_PV", "primal", "energy_PV", 0, "slack_energy_PV">>}

BigMPairsWith(H, batteryOffset) ==
    {[name |-> f[1], i |-> i,
      var |-> <<f[2], f[3], RangeItem(H, i + f[4])>>,
      con |-> <<"aux", f[5], i>>,
      cs |-> <<"cs", f[1], i>>] : f \in BigMFamilies(batteryOffset), i \in 0..(H - 1)}
    \cup
    {[name |-> k, i |-> 0, var |-> <<"primal", k, 0>>,
      con |-> <<"aux", "slack_" \o k, 0>>, cs |-> <<"cs", k, 0>>]
        : k \in {"capacity_battery", "capacity_PV"}}

\* a big-M battery-balance pair that takes energy_battery[i] instead of [i-1]
BigMPairsSameHour(H) == BigMPairsWith(H, 0)

\* the pairs of rows add_bigM_constrs adds:
\* var <= cs * M  and  con <= (1 - cs) * M
BigMPairs(H) == BigMPairsWith(H, -1)

\* add_sos_constrs, the hour-indexed loops:
\* <<list of self.constrs["sos"] appended to, group and family of the first
\*   member, index offset, family of the second member>>
SosFamilies ==
    {<<"limit_PV", "aux", "limit_PV", 0, "slack_limit_PV">>,
     <<"limit_battery", "aux", "limit_battery", 0, "slack_limit_battery">>,
     <<"energy_buy", "primal", "energy_buy", 0, "slack_energy_buy">>,
     <<"energy_sell", "primal", "energy_sell", 0, "slack_energy_sell">>,
     <<"energy_sell", "primal", "energy_battery_out", 0, "slack_energy_battery_out">>,
     <<"energy_battery_in", "primal", "energy_battery_in", 0, "slack_energy_battery_in">>,
     <<"energy_battery", "primal", "energy_battery", -1, "slack_energy_battery">>,
     <<"energy_PV", "primal", "energy_PV", 0, "slack_energy_PV">>}

\* the SOS1 sets add_sos_constrs hands to the solver
SosPairs(H) ==
    {[list |-> f[1], i |-> i,
      first |-> <<f[2], f[3], RangeItem(H, i + f[4])>>,
      second |-> <<"aux", f[5], i>>] : f \in SosFamilies, i \in 0..(H - 1)}
    \cup
    {[list |-> k, i |-> 0, first |-> <<"primal", k, 0>>,
      second |-> <<"aux", "slack_" \o k, 0>>]
        : k \in {"capacity_battery", "capacity_PV"}}

\* the keys add_sos_constrs creates in self.constrs["sos"]
SosLists ==
    {"limit_PV", "limit_battery", "energy_buy", "energy_sell", "energy_battery_out",
     "energy_battery_in", "energy_battery", "energy_PV", "capacity_battery",
     "capacity_PV"}

\* the big-M rows accept val (non-negative) for some value of each binary
BigMAccepts(H, M, val) ==
    \A c \in BigMPairs(H) :
        \E z \in {0, 1} : val[c.var] <= z * M /\ val[c.con] <= (1 - z) * M

\* SOS type 1: at most one member of each set is nonzero
SosAccepts(H, val) ==
    \A s \in SosPairs(H) :
        Cardinality({v \in {s.first, s.second} : val[v] # 0}) <= 1

\* HouseModel.add_bigM_constrs
add_bigM_constrs(m, M) ==
    [AddRows(m, "bigM", {c.name \o "." \o side : c \in BigMPairs(hours_num(m.house_params)),
                                                side \in {"var", "con"}})
        EXCEPT !.M = M, !.params = @ \cup {"IntFeasTol"},
               !.battery = @ \cup {[row |-> <<"bigM", c.name>>, i |-> c.i, uses |-> {c.var}]
                                     : c \in {b \in BigMPairs(hours_num(m.house_params)) :
                                                b.con[2] = "slack_energy_battery"}}]

\* HouseModel.add_sos_constrs
add_sos_constrs(m) ==
    LET P == SosPairs(hours_num(m.house_params))
    IN [m EXCEPT !.sos = {<<s.first, s.second>> : s \in P},
                 !.sosreg = [l \in SosLists |-> Cardinality({s \in P : s.list = l})],
                 !.params = @ \cup {"PreSOS1BigM"},
                 !.battery = @ \cup {[row |-> <<"sos", c.list>>, i |-> c.i, uses |-> {c.first}]
                                       : c \in {b \in P : b.second[2] = "slack_energy_battery"}}]

\* HouseModel.add_valid_ineq_constr
add_valid_ineq_constr(m, ub) ==
    [AddRows(m, "valid_ineq", {"valid_ineq"}) EXCEPT !.cut = ub]

-----------------------------------------------------------------------------
(* Solution values *)

\* the values of one group's variables in the candidate x, as get_values lays
\* them out: family -> list of hours_num values (addVars) or one value (addVar)
GroupValues(name, x, H) ==
    [k \in GroupKeys(name) |->
        CASE name = "upper_level" ->
                IF k = "delta" THEN x ELSE [i \in 1..H |-> Abs(x[i])]
          [] name = "primal" -> IF k \in ScalarKeys THEN x ELSE Fill(H, x)
          [] name = "dual" ->
                IF k \in {"limit_battery", "limit_PV"} THEN Fill(H, -x) ELSE Fill(H, x)]

\* every variable of the group at the same value v (fix_vars with a fix_value)
ConstValues(name, v, H) ==
    [k \in GroupKeys(name) |-> IF k \in ScalarKeys THEN v ELSE Fill(H, v)]

\* HouseModel.get_values (the caller has checked HasSol: var.X raises otherwise)
get_values(m, name) == GroupValues(name, m.X[name], hours_num(m.house_params))

\* value of an objective expression at the current solution
ExprValue(m, expr, arg) ==
    LET hp == m.house_params
        H == hours_num(hp)
        up == get_values(m, "upper_level")
        pr == get_values(m, "primal")
        du == get_values(m, "dual")
        upper == SeqSum(up["abs"])
        primal == cost_PV(hp) * pr["capacity_PV"]
                  + cost_battery(hp) * pr["capacity_battery"]
                  + hp.cost_buy * SeqSum(pr["energy_buy"])
                  - hp.sell_price * SeqSum(pr["energy_sell"])
        dual == SeqSum([i \in 1..H |->
                    du["eq_demand"][i] * hp.demands[i] * hp.total_demand
                        * (1 + up["delta"][i])])
    IN CASE expr = "upper_level" -> upper
         [] expr = "primal" -> primal
         [] expr = "dual" -> dual
         [] expr = "PADM" -> upper + arg * (primal - dual)
         [] expr = "delta" -> up["delta"][arg + 1]
         [] expr = "none" -> 0

\* HouseModel.get_obj_value
get_obj_value(m, name) ==
    IF name = None THEN ExprValue(m, m.objective.expr, m.objective.arg)
    ELSE ExprValue(m, name, 0)

\* HouseModel.get_demands
get_demands(m) ==
    LET hp == m.house_params
    IN [i \in 1..hours_num(hp) |-> hp.total_demand * hp.demands[i]]

\* HouseModel.get_changed_demands
get_changed_demands(m) ==
    LET hp == m.house_params
    IN [i \in 1..hours_num(hp) |->
          hp.total_demand * (hp.demands[i] * (1 + m.X["upper_level"][i]))]

-----------------------------------------------------------------------------
(* Pinning, objectives, solving *)

\* identity of the next row added to the solver model
FreshRow(m) == CHOOSE n \in 1..(Cardinality(m.pins) + 1) : \A p \in m.pins : p.id # n

\* a fix_vars that pins to 0 when no fix_value is given, instead of to var.X
fix_vars_zero(m, name, fix_value) ==
    LET H == hours_num(m.house_params)
        id == FreshRow(m)
    IN [m EXCEPT
          !.fix = (name :> {id}) @@ @,
          !.pins = @ \cup {[name |-> name, id |-> id,
                            vals |-> IF fix_value = NoValue
                                     THEN ConstValues(name, 0, H)
                                     ELSE ConstValues(name, fix_value[1], H)]}]

\* HouseModel.fix_vars: one pin row per variable of the group, kept as one
\* batch; with fix_value None and no solution, var.X raises after the (empty)
\* list was registered
fix_vars(m, name, fix_value) ==
    LET H == hours_num(m.house_params)
        id == FreshRow(m)
    IN IF fix_value = NoValue /\ ~HasSol(m)
       THEN [m EXCEPT !.fix = (name :> {}) @@ @]
       ELSE [m EXCEPT
               !.fix = (name :> {id}) @@ @,
               !.pins = @ \cup {[name |-> name, id |-> id,
                                 vals |-> IF fix_value = NoValue
                                          THEN get_values(m, name)
                                          ELSE ConstValues(name, fix_value[1], H)]}]

\* a release_vars that forgets the registry entry but removes no row
release_vars_registry_only(m, name) ==
    [m EXCEPT !.fix = [g \in (DOMAIN @) \ {name} |-> @[g]]]

\* HouseModel.release_vars (name is a key of self.constrs["fix"])
release_vars(m, name) ==
    [m EXCEPT !.pins = {p \in @ : p.id \notin m.fix[name]},
              !.fix = [g \in (DOMAIN @) \ {name} |-> @[g]]]

\* the sense set_obj picks for a named objective
ObjSense(name) ==
    CASE name \in {"primal", "upper_level", "PADM"} -> "MINIMIZE"
      [] name \in {"dual"} -> "MAXIMIZE"
      [] OTHER -> "undefined"

\* HouseModel.set_obj (name is a key of self.obj with a defined sense)
set_obj(m, name) ==
    [m EXCEPT !.objective = [expr |-> name, sense |-> ObjSense(name), arg |-> 0]]

\* a penalty objective that keeps the weight at 1
set_PADM_obj_unit(m, mu) ==
    [m EXCEPT !.objective = [expr |-> "PADM", sense |-> "MINIMIZE", arg |-> 1]]

\* HouseModel.set_PADM_obj
set_PADM_obj(m, mu) ==
    [m EXCEPT !.objective = [expr |-> "PADM", sense |-> "MINIMIZE", arg |-> mu]]

\* a bound objective that maximises delta[0] whatever the hour
set_valid_ineq_obj_first(m, i) ==
    [m EXCEPT !.objective = [expr |-> "delta", sense |-> "MAXIMIZE", arg |-> 0]]

\* HouseModel.set_valid_ineq_obj
set_valid_ineq_obj(m, i) ==
    [m EXCEPT !.objective = [expr |-> "delta", sense |-> "MAXIMIZE", arg |-> i]]

\* the assignments the solver may return for m
Candidates(m) ==
    LET hp == m.house_params
        ap == m.attack_params
        H == hours_num(hp)
    IN {x \in [upper_level : [1..H -> ap.lb..ap.ub], primal : 0..MaxVal, dual : 0..MaxVal] :
          /\ <<"upper_level", "demand_change">> \in m.constrs
                => SeqSum([i \in 1..H |-> x.upper_level[i] * hp.demands[i]]) = 0
          /\ \A p \in m.pins : GroupValues(p.name, x[p.name], H) = p.vals}

\* what model.optimize() may leave behind: a status and, with it, a solution or none
SolveOutcomes(m) ==
    {[status |-> s, X |-> x] : s \in {"OPTIMAL", "SUBOPTIMAL"}, x \in Candidates(m)}
    \cup {[status |-> "INFEASIBLE", X |-> NoX]}
    \cup (IF Candidates(m) = {} THEN {} ELSE {[status |-> "UNBOUNDED", X |-> NoX]})

\* HouseModel.solve
solve(m, o) == [m EXCEPT !.status = o.status, !.X = o.X, !.read = FALSE]

\* a solution attribute (var.X, LinExpr.getValue) is queried
Query(m) == [m EXCEPT !.read = TRUE]

-----------------------------------------------------------------------------
(* Control: the operations as straight-line programs over src/model.py.    *)
(* A frame's pc is the source line of the statement it executes next; its  *)
(* loc holds the locals that are read again (the temporaries of lines      *)
(* 723-726 and 732-733 are used within their step).                        *)

I(ins, arg, next) == [ins |-> ins, arg |-> arg, next |-> next]

Pin(name, value) == [name |-> name, value |-> value]

Get(group, into) == [group |-> group, into |-> into]

Val(group, key) == [group |-> group, key |-> key]

Ret(kind, keys) == [kind |-> kind, keys |-> keys]

\* Control.primal_model
CodePrimalModel ==
    (597 :> I("new", None, 598)) @@ (598 :> I("add_vars", None, 599))
    @@ (599 :> I("add_primal_constrs", None, 600))
    @@ (600 :> I("fix_vars", Pin("upper_level", Some(0)), 601))
    @@ (601 :> I("set_obj", "primal", 602)) @@ (602 :> I("solve", None, 603))
    @@ (603 :> I("print_value", Val("primal", "capacity_battery"), 604))
    @@ (604 :> I("print_value", Val("primal", "capacity_PV"), 605))
    @@ (605 :> I("return", Ret("None", {}), 0))

\* Control.dual_model
CodeDualModel ==
    (607 :> I("new", None, 608)) @@ (608 :> I("add_vars", None, 609))
    @@ (609 :> I("add_dual_constrs", None, 610))
    @@ (610 :> I("fix_vars", Pin("upper_level", Some(0)), 611))
    @@ (611 :> I("set_obj", "dual", 612)) @@ (612 :> I("solve", None, 613))
    @@ (613 :> I("get_values", Get("dual", None), 614))
    @@ (614 :> I("return", Ret("None", {}), 0))

\* Control.bigM_attack
CodeBigMAttack ==
    (616 :> I("new", None, 617)) @@ (617 :> I("add_vars", None, 618))
    @@ (618 :> I("add_upper_level_constrs", None, 619))
    @@ (619 :> I("add_primal_constrs", None, 620))
    @@ (620 :> I("add_dual_constrs", None, 621))
    @@ (621 :> I("add_aux_constrs", None, 622))
    @@ (622 :> I("add_bigM_constrs", None, 623))
    @@ (623 :> I("set_obj", "upper_level", 624)) @@ (624 :> I("solve", None, 625))
    @@ (625 :> I("print_obj", "primal", 626)) @@ (626 :> I("print_obj", "dual", 627))
    @@ (627 :> I("print_value", Val("primal", "capacity_battery"), 628))
    @@ (628 :> I("print_value", Val("primal", "capacity_PV"), 629))
    @@ (629 :> I("return",
                  Ret("dict", {"demands", "changed_demands", "PV", "battery", "buy", "sell"}), 0))

\* Control.sos_attack
CodeSosAttack ==
    (639 :> I("new", None, 640)) @@ (640 :> I("add_vars", None, 641))
    @@ (641 :> I("add_upper_level_constrs", None, 642))
    @@ (642 :> I("add_primal_constrs", None, 643))
    @@ (643 :> I("add_dual_constrs", None, 644))
    @@ (644 :> I("add_aux_constrs", None, 645))
    @@ (645 :> I("add_sos_constrs", None, 646))
    @@ (646 :> I("set_obj", "upper_level", 647)) @@ (647 :> I("solve", None, 648))
    @@ (648 :> I("print_obj", "primal", 649)) @@ (649 :> I("print_obj", "dual", 650))
    @@ (650 :> I("return", Ret("dict", {"demands", "changed_demands", "PV", "battery", "buy"}), 0))

\* Control.get_ub_valid_ineq
CodeGetUbValidIneq ==
    (659 :> I("new", None, 660)) @@ (660 :> I("LogToConsole", None, 661))
    @@ (661 :> I("add_vars", None, 662))
    @@ (662 :> I("add_upper_level_constrs", None, 663))
    @@ (663 :> I("add_primal_constrs", None, 664))
    @@ (664 :> I("ub_init", None, 665)) @@ (665 :> I("ub_for", 669, 666))
    @@ (666 :> I("set_valid_ineq_obj", None, 667)) @@ (667 :> I("solve", None, 668))
    @@ (668 :> I("ub_append", None, 665)) @@ (669 :> I("return", Ret("ub", {}), 0))

\* Control.sos_valid_ineq_attack
CodeSosValidIneqAttack ==
    (672 :> I("new", None, 673)) @@ (673 :> I("add_vars", None, 674))
    @@ (674 :> I("add_upper_level_constrs", None, 675))
    @@ (675 :> I("add_primal_constrs", None, 676))
    @@ (676 :> I("add_dual_constrs", None, 677))
    @@ (677 :> I("add_aux_constrs", None, 678))
    @@ (678 :> I("add_sos_constrs", None, 679))
    @@ (679 :> I("call_get_ub", None, 680))
    @@ (680 :> I("add_valid_ineq_constr", None, 681))
    @@ (681 :> I("solve", None, 682))
    @@ (682 :> I("print_obj", "primal", 683)) @@ (683 :> I("print_obj", "dual", 684))
    @@ (684 :> I("return", Ret("None", {}), 0))

\* Control.PADM_attack, with the successors of lines 711, 712 and 714 left open
PADMTable(after711, after712, after714) ==
    (686 :> I("new", None, 687)) @@ (687 :> I("LogToConsole", None, 688))
    @@ (688 :> I("add_vars", None, 689))
    @@ (689 :> I("add_upper_level_constrs", None, 690))
    @@ (690 :> I("add_primal_constrs", None, 691))
    @@ (691 :> I("add_dual_constrs", None, 692))
    @@ (692 :> I("set_obj", "upper_level", 693)) @@ (693 :> I("solve", None, 694))
    @@ (694 :> I("get_values", Get("primal", "primal_values"), 695))
    @@ (695 :> I("get_values", Get("dual", "dual_values"), 696))
    @@ (696 :> I("get_values", Get("upper_level", "upper_level_values"), 697))
    @@ (697 :> I("padm_init", None, 700))
    @@ (700 :> I("outer_begin", None, 704)) @@ (704 :> I("inner_begin", None, 706))
    @@ (706 :> I("set_PADM_obj", None, 708))
    @@ (708 :> I("fix_vars", Pin("dual", NoValue), 709)) @@ (709 :> I("solve", None, 710))
    @@ (710 :> I("get_values", Get("primal", "new_primal_values"), 711))
    @@ (711 :> I("get_values", Get("upper_level", "new_upper_level_values"), after711))
    @@ (712 :> I("release_vars", "dual", after712))
    @@ (714 :> I("fix_vars", Pin("primal", NoValue), after714))
    @@ (715 :> I("fix_vars", Pin("upper_level", NoValue), 716))
    @@ (716 :> I("solve", None, 717))
    @@ (717 :> I("get_values", Get("dual", "new_dual_values"), 718))
    @@ (718 :> I("release_vars", "primal", 719))
    @@ (719 :> I("release_vars", "upper_level", 723))
    @@ (723 :> I("inner_check", 704, 732)) @@ (732 :> I("outer_check", 700, 738))
    @@ (738 :> I("print_obj", "upper_level", 739))
    @@ (739 :> I("print_obj", "primal", 740)) @@ (740 :> I("print_obj", "dual", 741))
    @@ (741 :> I("print_value", Val("primal", "capacity_battery"), 742))
    @@ (742 :> I("print_value", Val("primal", "capacity_PV"), 743))
    @@ (743 :> I("return", Ret("None", {}), 0))

\* PADM_attack with the primal group pinned before the dual group is released
CodePADMAttackLateRelease == PADMTable(714, 715, 712)

\* Control.PADM_attack
CodePADMAttack == PADMTable(712, 714, 715)

Code ==
    CodePrimalModel @@ CodeDualModel @@ CodeBigMAttack @@ CodeSosAttack
    @@ CodeGetUbValidIneq @@ CodeSosValidIneqAttack @@ CodePADMAttack

Ops ==
    {"primal_model", "dual_model", "bigM_attack", "sos_attack", "get_ub_valid_ineq",
     "sos_valid_ineq_attack", "PADM_attack"}

\* first line of each operation's body
Entry(op) ==
    CASE op = "primal_model" -> 597
      [] op = "dual_model" -> 607
      [] op = "bigM_attack" -> 616
      [] op = "sos_attack" -> 639
      [] op = "get_ub_valid_ineq" -> 659
      [] op = "sos_valid_ineq_attack" -> 672
      [] op = "PADM_attack" -> 686

\* the arguments a caller may pass
ArgsOf(op) ==
    CASE op = "bigM_attack" -> {[M |-> M] : M \in {MaxVal, 100000}}
      [] op = "PADM_attack" -> {[PADM_params |-> q] : q \in PADMParamsSet}
      [] OTHER -> {<<>>}

\* the locals of a fresh frame: the arguments, the others not yet bound
Locals(op, args) ==
    CASE op = "PADM_attack" ->
            [PADM_params |-> args.PADM_params,
             primal_values |-> None, dual_values |-> None, upper_level_values |-> None,
             new_primal_values |-> None, new_dual_values |-> None,
             new_upper_level_values |-> None,
             mu |-> None, i |-> None, j |-> None]
      [] op = "get_ub_valid_ineq" -> [ub |-> None, i |-> None, taken |-> 0]
      [] op = "sos_valid_ineq_attack" -> [ub |-> None]
      [] OTHER -> args

Frame(op, args) == [op |-> op, pc |-> Entry(op), hm |-> 0, loc |-> Locals(op, args)]

NoModels == [id \in {} |-> id]

NoRet == [kind |-> "none"]

-----------------------------------------------------------------------------
(* Control: state and steps *)

\* the largest of B[key][i] - A[key][i]: the difference taken the other way round
diff_values_reversed(values_A, values_B) ==
    LET KeyDiff(key) ==
            IF key \in ScalarKeys THEN values_B[key] - values_A[key]
            ELSE SeqMax([i \in 1..Len(values_A[key]) |-> values_B[key][i] - values_A[key][i]])
        diffs == {KeyDiff(key) : key \in DOMAIN values_A}
    IN CHOOSE d \in diffs : \A e \in diffs : d >= e

\* Control.diff_values: the largest of A[key][i] - B[key][i]
diff_values(values_A, values_B) ==
    LET KeyDiff(key) ==
            IF key \in ScalarKeys THEN values_A[key] - values_B[key]
            ELSE SeqMax([i \in 1..Len(values_A[key]) |-> values_A[key][i] - values_B[key][i]])
        diffs == {KeyDiff(key) : key \in DOMAIN values_A}
    IN CHOOSE d \in diffs : \A e \in diffs : d >= e

\* the dictionary bigM_attack / sos_attack return, for the keys their return names
ResultDict(m, keys) ==
    [k \in keys |->
        CASE k = "demands" -> get_demands(m)
          [] k = "changed_demands" -> get_changed_demands(m)
          [] k = "PV" -> get_values(m, "primal")["energy_PV"]
          [] k = "battery" -> get_values(m, "primal")["energy_battery"]
          [] k = "buy" -> get_values(m, "primal")["energy_buy"]
          [] k = "sell" -> get_values(m, "primal")["energy_sell"]]

\* an object identity that is already taken, when there is one
SharedId(ms) == IF DOMAIN ms = {} THEN 1 ELSE CHOOSE n \in DOMAIN ms : TRUE

\* a new object never shares identity with a live one
FreshId(ms) == CHOOSE n \in 1..(Cardinality(DOMAIN ms) + 1) : n \notin DOMAIN ms

Init ==
    /\ house_params \in HouseParamsSet
    /\ attack_params \in AttackParamsSet
    /\ models = NoModels
    /\ stack = <<>>
    /\ ret = NoRet
    /\ out = <<>>
    /\ cs_in = None
    /\ cs_out = None
    /\ lp = None

top == stack[Len(stack)]

ins == Code[top.pc]

cur == models[top.hm]

At(name) == stack # <<>> /\ ins.ins = name

\* the running frame moves to line next with model m2, locals loc2, output out2
Step(m2, loc2, next, out2) ==
    /\ models' = [models EXCEPT ![top.hm] = m2]
    /\ stack' = [stack EXCEPT ![Len(stack)] = [@ EXCEPT !.pc = next, !.loc = loc2]]
    /\ out' = out2
    /\ UNCHANGED <<house_params, attack_params, ret, cs_in, cs_out, lp>>

\* an exception nobody catches: every frame is unwound, its model dropped
Raise(exc) ==
    /\ models' = NoModels
    /\ stack' = <<>>
    /\ ret' = [kind |-> "raise", op |-> stack[1].op, exc |-> exc]
    /\ UNCHANGED <<house_params, attack_params, out, cs_in, cs_out, lp>>

\* a caller invokes an operation of Control
Call ==
    /\ stack = <<>>
    /\ \E op \in Ops : \E args \in ArgsOf(op) : stack' = <<Frame(op, args)>>
    /\ ret' = NoRet
    /\ out' = <<>>
    /\ UNCHANGED <<house_params, attack_params, models, cs_in, cs_out, lp>>

\* hm = HouseModel(house_params=self.house_params, attack_params=self.attack_params)
New ==
    /\ At("new")
    /\ LET id == FreshId(models)
       IN /\ models' = (id :> NewHouseModel(house_params, attack_params)) @@ models
          /\ stack' = [stack EXCEPT ![Len(stack)] = [@ EXCEPT !.hm = id, !.pc = ins.next]]
    /\ UNCHANGED <<house_params, attack_params, ret, out, cs_in, cs_out, lp>>

\* hm.model.Params.LogToConsole = 0
SetLogToConsole ==
    /\ At("LogToConsole")
    /\ Step([cur EXCEPT !.params = @ \cup {"LogToConsole"}], top.loc, ins.next, out)

AddVars ==
    /\ At("add_vars")
    /\ Step(add_vars(cur), top.loc, ins.next, out)

AddUpperLevelConstrs ==
    /\ At("add_upper_level_constrs")
    /\ Step(add_upper_level_constrs(cur), top.loc, ins.next, out)

AddPrimalConstrs ==
    /\ At("add_primal_constrs")
    /\ IF PVIndexOK(cur.house_params)
       THEN Step(add_primal_constrs(cur), top.loc, ins.next, out)
       ELSE Raise("IndexError")

AddDualConstrs ==
    /\ At("add_dual_constrs")
    /\ IF PVIndexOK(cur.house_params)
       THEN Step(add_dual_constrs(cur), top.loc, ins.next, out)
       ELSE Raise("IndexError")

AddAuxConstrs ==
    /\ At("add_aux_constrs")
    /\ IF PVIndexOK(cur.house_params)
       THEN Step(add_aux_constrs(cur), top.loc, ins.next, out)
       ELSE Raise("IndexError")

AddBigMConstrs ==
    /\ At("add_bigM_constrs")
    /\ Step(add_bigM_constrs(cur, top.loc.M), top.loc, ins.next, out)

AddSosConstrs ==
    /\ At("add_sos_constrs")
    /\ Step(add_sos_constrs(cur), top.loc, ins.next, out)

AddValidIneqConstr ==
    /\ At("add_valid_ineq_constr")
    /\ Step(add_valid_ineq_constr(cur, top.loc.ub), top.loc, ins.next, out)

FixVars ==
    /\ At("fix_vars")
    /\ IF ins.arg.value = NoValue /\ ~HasSol(cur)
       THEN Raise("GurobiError")
       ELSE Step(fix_vars(cur, ins.arg.name, ins.arg.value), top.loc, ins.next, out)

ReleaseVars ==
    /\ At("release_vars")
    /\ Step(release_vars(cur, ins.arg), top.loc, ins.next, out)

SetObj ==
    /\ At("set_obj")
    /\ Step(set_obj(cur, ins.arg), top.loc, ins.next, out)

SetPADMObj ==
    /\ At("set_PADM_obj")
    /\ Step(set_PADM_obj(cur, top.loc.mu), top.loc, ins.next, out)

SetValidIneqObj ==
    /\ At("set_valid_ineq_obj")
    /\ Step(set_valid_ineq_obj(cur, top.loc.i), top.loc, ins.next, out)

\* hm.solve(): the returned status is dropped by every caller
Solve ==
    /\ At("solve")
    /\ \E o \in SolveOutcomes(cur) : Step(solve(cur, o), top.loc, ins.next, out)

\* print(hm.get_obj_value(name))
PrintObj ==
    /\ At("print_obj")
    /\ IF HasSol(cur)
       THEN Step(Query(cur), top.loc, ins.next,
                 Append(out, <<ins.arg, get_obj_value(cur, ins.arg)>>))
       ELSE Raise("GurobiError")

\* print(hm.get_values(group)[key])
PrintValue ==
    /\ At("print_value")
    /\ IF HasSol(cur)
       THEN Step(Query(cur), top.loc, ins.next,
                 Append(out, <<ins.arg.key, get_values(cur, ins.arg.group)[ins.arg.key]>>))
       ELSE Raise("GurobiError")

\* local = hm.get_values(group), or the bare call of dual_model
GetValues ==
    /\ At("get_values")
    /\ IF HasSol(cur)
       THEN Step(Query(cur),
                 IF ins.arg.into = None THEN top.loc
                 ELSE [top.loc EXCEPT ![ins.arg.into] = get_values(cur, ins.arg.group)],
                 ins.next, out)
       ELSE Raise("GurobiError")

\* ub = []
UbInit ==
    /\ At("ub_init")
    /\ Step(cur, [top.loc EXCEPT !.ub = <<>>], ins.next, out)

\* for i in range(len(self.house_params.demands)): the range yields its next
\* item (taken counts those already yielded) or the loop ends
UbFor ==
    /\ At("ub_for")
    /\ IF top.loc.taken < Len(house_params.demands)
       THEN Step(cur, [top.loc EXCEPT !.i = top.loc.taken, !.taken = @ + 1], ins.next, out)
       ELSE Step(cur, top.loc, ins.arg, out)

\* ub.append(hm.get_obj_value())
UbAppend ==
    /\ At("ub_append")
    /\ IF HasSol(cur)
       THEN Step(Query(cur), [top.loc EXCEPT !.ub = Append(@, get_obj_value(cur, None))],
                 ins.next, out)
       ELSE Raise("GurobiError")

\* ub = self.get_ub_valid_ineq(): the callee's frame is pushed
CallGetUb ==
    /\ At("call_get_ub")
    /\ stack' = Append(stack, Frame("get_ub_valid_ineq", <<>>))
    /\ UNCHANGED <<house_params, attack_params, models, ret, out, cs_in, cs_out, lp>>

\* return: the frame is popped and its model becomes unreachable; the value
\* goes to the outside caller, or into ub of the calling frame
Return ==
    /\ At("return")
    /\ LET value == CASE ins.arg.kind = "None" -> None
                      [] ins.arg.kind = "ub" -> top.loc.ub
                      [] ins.arg.kind = "dict" -> ResultDict(cur, ins.arg.keys)
           n == Len(stack)
       IN /\ models' = [id \in (DOMAIN models) \ {top.hm} |-> models[id]]
          /\ IF n = 1
             THEN /\ stack' = <<>>
                  /\ ret' = [kind |-> "return", op |-> top.op, value |-> value]
             ELSE /\ stack' = [SubSeq(stack, 1, n - 1) EXCEPT
                                ![n - 1] = [@ EXCEPT !.pc = Code[@].next,
                                                     !.loc = [@ EXCEPT !.ub = value]]]
                  /\ ret' = ret
    /\ UNCHANGED <<house_params, attack_params, out, cs_in, cs_out, lp>>

\* mu = PADM_params.initial_mu; j = 0
PadmInit ==
    /\ At("padm_init")
    /\ Step(cur, [top.loc EXCEPT !.mu = top.loc.PADM_params.initial_mu, !.j = 0],
            ins.next, out)

\* j += 1; i = 0 (and the progress line "j = ...")
OuterBegin ==
    /\ At("outer_begin")
    /\ Step(cur, [top.loc EXCEPT !.j = @ + 1, !.i = 0], ins.next, out)

\* i += 1 (and the progress line "i = ...")
InnerBegin ==
    /\ At("inner_begin")
    /\ Step(cur, [top.loc EXCEPT !.i = @ + 1], ins.next, out)

\* the inner check without the iteration cap
InnerCheckUncapped ==
    /\ At("inner_check")
    /\ LET l == top.loc
           primal_diff == diff_values(l.primal_values, l.new_primal_values)
           dual_diff == diff_values(l.dual_values, l.new_dual_values)
           upper_level_diff == diff_values(l.upper_level_values, l.new_upper_level_values)
           diff == Max(Max(primal_diff, dual_diff), upper_level_diff)
           exit == diff < l.PADM_params.stationary_error
       IN Step(cur,
               [l EXCEPT !.primal_values = l.new_primal_values,
                         !.dual_values = l.new_dual_values,
                         !.upper_level_values = l.new_upper_level_values],
               IF exit THEN ins.next ELSE ins.arg, out)

\* lines 723-731: compare the snapshots, replace them, maybe leave the inner loop
InnerCheck ==
    /\ At("inner_check")
    /\ LET l == top.loc
           primal_diff == diff_values(l.primal_values, l.new_primal_values)
           dual_diff == diff_values(l.dual_values, l.new_dual_values)
           upper_level_diff == diff_values(l.upper_level_values, l.new_upper_level_values)
           diff == Max(Max(primal_diff, dual_diff), upper_level_diff)
           exit == \/ diff < l.PADM_params.stationary_error
                   \/ l.i >= l.PADM_params.max_stationary_iter
       IN Step(cur,
               [l EXCEPT !.primal_values = l.new_primal_values,
                         !.dual_values = l.new_dual_values,
                         !.upper_level_values = l.new_upper_level_values],
               IF exit THEN ins.next ELSE ins.arg, out)

\* lines 732-737: relative duality gap, stop or raise the penalty
OuterCheck ==
    /\ At("outer_check")
    /\ LET l == top.loc
           p == get_obj_value(cur, "primal")
           d == get_obj_value(cur, "dual")
           tol == l.PADM_params.penalty_error
           stop == \/ Abs(p - d) * tol.den < tol.num * Abs(p)
                   \/ l.j >= l.PADM_params.max_penalty_iter
       IN IF p = 0
          THEN Raise("ZeroDivisionError")
          ELSE Step(Query(cur),
                    [l EXCEPT !.mu = IF stop THEN @ ELSE @ * l.PADM_params.increase_factor],
                    IF stop THEN ins.next ELSE ins.arg, out)

Next ==
    \/ Call \/ New \/ SetLogToConsole \/ AddVars \/ AddUpperLevelConstrs
    \/ AddPrimalConstrs \/ AddDualConstrs \/ AddAuxConstrs \/ AddBigMConstrs
    \/ AddSosConstrs \/ AddValidIneqConstr \/ FixVars \/ ReleaseVars \/ SetObj
    \/ SetPADMObj \/ SetValidIneqObj \/ Solve \/ PrintObj \/ PrintValue \/ GetValues
    \/ UbInit \/ UbFor \/ UbAppend \/ CallGetUb \/ Return \/ PadmInit \/ OuterBegin
    \/ InnerBegin \/ InnerCheck \/ OuterCheck

Spec == Init /\ [][Next]_vars

-----------------------------------------------------------------------------
(* HouseModel used directly: fix_vars / release_vars / solve in any order   *)
(* on one model built as PADM_attack builds it (lines 686-691).            *)

BuiltModel(hp, ap) ==
    add_dual_constrs(add_primal_constrs(add_upper_level_constrs(
        add_vars(NewHouseModel(hp, ap)))))

InitFix ==
    /\ house_params \in {hp \in HouseParamsSet : Len(hp.demands) = Len(hp.PV_availabilities)}
    /\ attack_params = AttackParams(-1, 1)
    /\ models = (1 :> BuiltModel(house_params, attack_params))
    /\ stack = <<>>
    /\ ret = NoRet
    /\ out = <<>>
    /\ cs_in = None
    /\ cs_out = None
    /\ lp = None

\* hm.fix_vars(name) or hm.fix_vars(name, v)
FixCall ==
    /\ Cardinality(models[1].pins) < MaxFix
    /\ \E name \in ValueGroups : \E v \in {NoValue} \cup {Some(x) : x \in 0..MaxVal} :
          models' = [models EXCEPT ![1] = fix_vars(@, name, v)]
    /\ UNCHANGED <<house_params, attack_params, stack, ret, out, cs_in, cs_out, lp>>

\* hm.release_vars(name), name a registered group (a KeyError otherwise)
ReleaseCall ==
    /\ \E name \in DOMAIN models[1].fix :
          models' = [models EXCEPT ![1] = release_vars(@, name)]
    /\ UNCHANGED <<house_params, attack_params, stack, ret, out, cs_in, cs_out, lp>>

\* hm.solve()
SolveCall ==
    /\ \E o \in SolveOutcomes(models[1]) : models' = [models EXCEPT ![1] = solve(@, o)]
    /\ UNCHANGED <<house_params, attack_params, stack, ret, out, cs_in, cs_out, lp>>

NextFix == FixCall \/ ReleaseCall \/ SolveCall

SpecFix == InitFix /\ [][NextFix]_vars

-----------------------------------------------------------------------------
(* The two complementarity encodings applied to a drawn assignment of the  *)
(* non-binary variables.  Each row or set involves two variables, so the   *)
(* assignments with at most two nonzero variables reach every way a pair   *)
(* can be accepted or refused.                                             *)

\* the continuous variables either encoding may name
PairVars(H) ==
    {v \in {<<g, k, i>> : g \in {"primal", "aux"},
                          k \in GroupKeys("primal") \cup GroupKeys("aux"),
                          i \in 0..(H - 1)} :
        /\ v[2] \in GroupKeys(v[1])
        /\ v[2] \in ScalarKeys => v[3] = 0}

\* the assignment that is a[v] on the support of a and 0 elsewhere
Assignment(H, a) == [v \in PairVars(H) |-> IF v \in DOMAIN a THEN a[v] ELSE 0]

InitCS ==
    /\ house_params = None
    /\ attack_params = None
    /\ models = NoModels
    /\ stack = <<>>
    /\ ret = NoRet
    /\ out = <<>>
    /\ \E H \in 1..MaxH : \E M \in 0..(MaxVal + 1) :
         \E S \in {{}} \cup {{v, w} : v, w \in PairVars(H)} :
           \E a \in [S -> 1..MaxVal] : cs_in = [H |-> H, M |-> M, a |-> a]
    /\ cs_out = {}
    /\ lp = None

\* the rows of add_bigM_constrs(M) are put to the assignment
ApplyBigM ==
    /\ \A r \in cs_out : r.enc # "bigM"
    /\ cs_out' = cs_out \cup
          {[enc |-> "bigM",
            accepts |-> BigMAccepts(cs_in.H, cs_in.M, Assignment(cs_in.H, cs_in.a))]}
    /\ UNCHANGED <<house_params, attack_params, models, stack, ret, out, cs_in, lp>>

\* the sets of add_sos_constrs() are put to the assignment
ApplySos ==
    /\ \A r \in cs_out : r.enc # "sos"
    /\ cs_out' = cs_out \cup
          {[enc |-> "sos", accepts |-> SosAccepts(cs_in.H, Assignment(cs_in.H, cs_in.a))]}
    /\ UNCHANGED <<house_params, attack_params, models, stack, ret, out, cs_in, lp>>

NextCS == ApplyBigM \/ ApplySos

SpecCS == InitCS /\ [][NextCS]_vars

-----------------------------------------------------------------------------
(* The dispatch LP of primal_model / dual_model, delta pinned to 0, over    *)
(* integer points: a side's variables are given values one after the other, *)
(* a value being kept when every row whose variables all have a value holds. *)
(* A variable is <<family, index>>, the index Python's.                      *)

\* add_vars: the primal variables, capacities first, then hour by hour
PrimalVars(H) ==
    LET fams == <<"energy_PV", "energy_battery_in", "energy_battery_out",
                  "energy_battery", "energy_sell", "energy_buy">>
    IN <<<<"capacity_PV", 0>>, <<"capacity_battery", 0>>>>
       \o [k \in 1..(Len(fams) * H) |->
              <<fams[((k - 1) % Len(fams)) + 1], (k - 1) \div Len(fams)>>]

\* add_vars: the dual variables, hour by hour
DualVars(H) ==
    LET fams == <<"eq_demand", "eq_battery", "limit_PV", "limit_battery">>
    IN [k \in 1..(Len(fams) * H) |->
           <<fams[((k - 1) % Len(fams)) + 1], (k - 1) \div Len(fams)>>]

LPVars(side, H) == IF side = "primal" THEN PrimalVars(H) ELSE DualVars(H)

\* add_vars: lb = 0 by default for the primal variables, lb = -infinity for the
\* dual ones with ub = 0 for the limit multipliers; infinity is cut at a bound
LPDomain(side, v) ==
    IF side = "primal" THEN 0..MaxVal
    ELSE IF v[1] \in {"limit_PV", "limit_battery"} THEN (-(MaxVal + 1))..0
    ELSE (-(MaxVal + 1))..(MaxVal + 1)

\* the rows of add_primal_constrs / add_dual_constrs, <<name, index>>
LPRows(side, H) ==
    IF side = "primal"
    THEN {"eq_demand", "eq_battery", "limit_PV", "limit_battery"} \X (0..(H - 1))
    ELSE ({"energy_buy", "energy_sell", "energy_battery_out", "energy_battery_in",
           "energy_battery", "energy_PV"} \X (0..(H - 1)))
         \cup {<<"capacity_battery", 0>>, <<"capacity_PV", 0>>}

\* the variables a row mentions
LPRowVars(side, r, H) ==
    LET i == r[2]
        prev == RangeItem(H, i - 1)
    IN IF side = "primal"
       THEN CASE r[1] = "eq_demand" ->
                    {<<"energy_buy", i>>, <<"energy_sell", i>>, <<"energy_battery_out", i>>,
                     <<"energy_battery_in", i>>, <<"energy_PV", i>>}
              [] r[1] = "eq_battery" ->
                    {<<"energy_battery", prev>>, <<"energy_battery_in", i>>,
                     <<"energy_battery_out", i>>, <<"energy_battery", i>>}
              [] r[1] = "limit_PV" -> {<<"energy_PV", i>>, <<"capacity_PV", 0>>}
              [] r[1] = "limit_battery" -> {<<"energy_battery", i>>, <<"capacity_battery", 0>>}
       ELSE CASE r[1] \in {"energy_buy", "energy_sell"} -> {<<"eq_demand", i>>}
              [] r[1] \in {"energy_battery_out", "energy_battery_in"} ->
                    {<<"eq_demand", i>>, <<"eq_battery", i>>}
              [] r[1] = "energy_battery" ->
                    {<<"eq_battery", i>>, <<"eq_battery", prev>>, <<"limit_battery", prev>>}
              [] r[1] = "energy_PV" -> {<<"eq_demand", i>>, <<"limit_PV", i>>}
              [] r[1] = "capacity_battery" -> {<<"limit_battery", n>> : n \in 0..(H - 1)}
              [] r[1] = "capacity_PV" -> {<<"limit_PV", n>> : n \in 0..(H - 1)}

\* add_primal_constrs lines 140-176 with delta[i] = 0: does row r hold under val
PrimalRowHolds(r, hp, val) ==
    LET i == r[2]
        prev == RangeItem(hours_num(hp), i - 1)
    IN CASE r[1] = "eq_demand" ->
                val[<<"energy_buy", i>>] - val[<<"energy_sell", i>>]
                + val[<<"energy_battery_out", i>>] - val[<<"energy_battery_in", i>>]
                + val[<<"energy_PV", i>>]
                    = hp.demands[i + 1] * hp.total_demand * (1 + 0)
         [] r[1] = "eq_battery" ->
                val[<<"energy_battery", prev>>] + val[<<"energy_battery_in", i>>]
                - val[<<"energy_battery_out", i>>] = val[<<"energy_battery", i>>]
         [] r[1] = "limit_PV" ->
                val[<<"energy_PV", i>>]
                    <= val[<<"capacity_PV", 0>>] * hp.PV_availabilities[i + 1]
         [] r[1] = "limit_battery" ->
                val[<<"energy_battery", i>>] <= val[<<"capacity_battery", 0>>]

\* add_dual_constrs lines 189-235: does row r hold under val
DualRowHolds(r, hp, val) ==
    LET H == hours_num(hp)
        i == r[2]
        prev == RangeItem(H, i - 1)
    IN CASE r[1] = "energy_buy" -> val[<<"eq_demand", i>>] <= hp.cost_buy
         [] r[1] = "energy_sell" -> -val[<<"eq_demand", i>>] <= -hp.sell_price
         [] r[1] = "energy_battery_out" ->
                val[<<"eq_demand", i>>] - val[<<"eq_battery", i>>] <= 0
         [] r[1] = "energy_battery_in" ->
                -val[<<"eq_demand", i>>] + val[<<"eq_battery", i>>] <= 0
         [] r[1] = "energy_battery" ->
                val[<<"eq_battery", i>>] - val[<<"eq_battery", prev>>]
                + val[<<"limit_battery", prev>>] <= 0
         [] r[1] = "energy_PV" -> val[<<"eq_demand", i>>] + val[<<"limit_PV", i>>] <= 0
         [] r[1] = "capacity_battery" ->
                SeqSum([n \in 1..H |-> -val[<<"limit_battery", n - 1>>]]) <= cost_battery(hp)
         [] r[1] = "capacity_PV" ->
                SeqSum([n \in 1..H |-> -val[<<"limit_PV", n - 1>>] * hp.PV_availabilities[n]])
                    <= cost_PV(hp)

LPRowHolds(side, r, hp, val) ==
    IF side = "primal" THEN PrimalRowHolds(r, hp, val) ELSE DualRowHolds(r, hp, val)

\* a primal objective that leaves the battery capacity out
LPPrimalObjFreeBattery(hp, val) ==
    LET H == hours_num(hp)
    IN cost_PV(hp) * val[<<"capacity_PV", 0>>]
       + hp.cost_buy * SeqSum([n \in 1..H |-> val[<<"energy_buy", n - 1>>]])
       - hp.sell_price * SeqSum([n \in 1..H |-> val[<<"energy_sell", n - 1>>]])

\* self.obj["primal"], lines 179-184
LPPrimalObj(hp, val) ==
    LET H == hours_num(hp)
    IN cost_PV(hp) * val[<<"capacity_PV", 0>>]
       + cost_battery(hp) * val[<<"capacity_battery", 0>>]
       + hp.cost_buy * SeqSum([n \in 1..H |-> val[<<"energy_buy", n - 1>>]])
       - hp.sell_price * SeqSum([n \in 1..H |-> val[<<"energy_sell", n - 1>>]])

\* self.obj["dual"], line 238, with delta[i] = 0
LPDualObj(hp, val) ==
    SeqSum([n \in 1..hours_num(hp) |->
        val[<<"eq_demand", n - 1>>] * hp.demands[n] * hp.total_demand * (1 + 0)])

\* every row that mentions v and whose variables all have a value holds
LPRowsHold(side, hp, val, v) ==
    LET H == hours_num(hp)
    IN \A r \in LPRows(side, H) :
          (v \in LPRowVars(side, r, H) /\ LPRowVars(side, r, H) \subseteq DOMAIN val)
              => LPRowHolds(side, r, hp, val)

\* a house with no sun: PV availability 0 in every hour, positive unit costs,
\* sell_price < cost_buy
BaselineHouse(H) == [HouseParams(Fill(H, 1), Fill(H, 0)) EXCEPT !.total_demand = 1]

InitLP ==
    /\ house_params = None
    /\ attack_params = None
    /\ models = NoModels
    /\ stack = <<>>
    /\ ret = NoRet
    /\ out = <<>>
    /\ cs_in = None
    /\ cs_out = None
    /\ \E H \in 1..MaxH, side \in {"primal", "dual"} :
          lp = [hp |-> BaselineHouse(H), side |-> side, val |-> <<>>]

\* the next variable of the side gets a value
LPAssign(side) ==
    /\ lp.side = side
    /\ LET vs == LPVars(side, hours_num(lp.hp))
           n == Cardinality(DOMAIN lp.val)
       IN /\ n < Len(vs)
          /\ \E x \in LPDomain(side, vs[n + 1]) :
                /\ LPRowsHold(side, lp.hp, (vs[n + 1] :> x) @@ lp.val, vs[n + 1])
                /\ lp' = [lp EXCEPT !.val = (vs[n + 1] :> x) @@ @]
    /\ UNCHANGED <<house_params, attack_params, models, stack, ret, out, cs_in, cs_out>>

AssignPrimal == LPAssign("primal")

AssignDual == LPAssign("dual")

NextLP == AssignPrimal \/ AssignDual

SpecLP == InitLP /\ [][NextLP]_vars

-----------------------------------------------------------------------------
(* Properties *)

Frames == {stack[k] : k \in 1..Len(stack)}

\* the frames of operation op that have built their model
Running(op) == {f \in Frames : f.op = op /\ f.hm \in DOMAIN models}

\* C1: a variable or objective value is read from a model only when its last
\* solve returned OPTIMAL; after any other status nothing is read.
C1_ReadOnlyAfterOptimal ==
    \A id \in DOMAIN models : models[id].read => models[id].status = "OPTIMAL"

\* C2: when bigM_attack and sos_attack issue their solve, the solver holds the
\* upper-level objective (the sum of abs[i]) with sense MAXIMIZE.
C2_AttackMaximizesUpperLevel ==
    \A f \in Running("bigM_attack") \cup Running("sos_attack") :
        Code[f.pc].ins = "solve" =>
            /\ models[f.hm].objective.expr = "upper_level"
            /\ models[f.hm].objective.sense = "MAXIMIZE"

\* C3: when sos_valid_ineq_attack issues its main solve, the model's objective
\* is the upper-level objective, as in sos_attack, not the unset default.
C3_TightenedSolvesUpperLevel ==
    \A f \in Running("sos_valid_ineq_attack") :
        Code[f.pc].ins = "solve" => models[f.hm].objective.expr = "upper_level"

\* C4: after any sequence of fix_vars / release_vars calls, once no group is
\* registered as fixed the model holds no pin row and its rows are those it
\* had before the first fix.
C4_AllReleasedLeavesNoPin ==
    DOMAIN models[1].fix = {} =>
        /\ models[1].pins = {}
        /\ models[1].constrs = BuiltModel(house_params, attack_params).constrs

\* C5: in PADM_attack, whenever a primal or upper-level pin is in the model,
\* step (a) is over (its values recorded, no dual pin left, dual unregistered),
\* and the pinned values are those step (a)'s solve produced: the recorded new
\* snapshots, and the solver's solution itself until step (b) solves.
C5_StepBPinsStepAValues ==
    \A f \in Running("PADM_attack") :
        LET m == models[f.hm]
        IN \A p \in m.pins :
              p.name \in {"primal", "upper_level"} =>
                  /\ f.pc \in {715, 716, 717, 718, 719}
                  /\ "dual" \notin DOMAIN m.fix
                  /\ \A q \in m.pins : q.name # "dual"
                  /\ p.name = "primal" => p.vals = f.loc.new_primal_values
                  /\ p.name = "upper_level" => p.vals = f.loc.new_upper_level_values
                  /\ f.pc \in {715, 716} => p.vals = get_values(m, p.name)

\* step (b) of the second inner iteration is about to solve, with both groups
\* pinned to nonzero values
C5_Witness ==
    \E f \in Running("PADM_attack") :
        /\ f.pc = 716
        /\ f.loc.i = 2
        /\ models[f.hm].X.primal > 0
        /\ \E i \in DOMAIN models[f.hm].X.upper_level : models[f.hm].X.upper_level[i] # 0
        /\ {p.name : p \in models[f.hm].pins} = {"primal", "upper_level"}

\* only running calls own a model, each its own
C6_Ownership ==
    /\ {f.hm : f \in Frames} \ {0} = DOMAIN models
    /\ \A k1, k2 \in 1..Len(stack) :
          k1 # k2 /\ stack[k1].hm # 0 => stack[k1].hm # stack[k2].hm

\* a step leaves the parameters alone, changes no model but the running
\* frame's, and a model that appears is the empty one made from the parameters
C6_Step ==
    /\ house_params' = house_params
    /\ attack_params' = attack_params
    /\ \A id \in DOMAIN models \cap DOMAIN models' :
          \/ stack # <<>> /\ id = top.hm
          \/ models'[id] = models[id]
    /\ \A id \in DOMAIN models' \ DOMAIN models :
          models'[id] = NewHouseModel(house_params, attack_params)

\* C6: every Control operation works on a HouseModel of its own, built from
\* the parameters alone; no step changes Control.house_params,
\* Control.attack_params or a model of another call, and no model outlives
\* its call.
C6_NoSharedModelState == []C6_Ownership /\ [][C6_Step]_vars

\* get_ub_valid_ineq has solved its own model while the model of the calling
\* sos_valid_ineq_attack is still unsolved
C6_Witness ==
    /\ Len(stack) = 2
    /\ stack[1].hm # stack[2].hm
    /\ {stack[1].hm, stack[2].hm} \subseteq DOMAIN models
    /\ models[stack[2].hm].status = "OPTIMAL"
    /\ models[stack[1].hm].status = "LOADED"
    /\ models[stack[1].hm].sos # {}

\* C7: when PADM_attack ends with the duality-gap tolerance not met (the outer
\* cap stopped it), what it returns or prints is marked best-effort and
\* carries the achieved stationarity and duality-gap values.
C7_CapReachedIsMarked ==
    \A f \in Running("PADM_attack") :
        Code[f.pc].ins = "return" =>
            LET m == models[f.hm]
                p == get_obj_value(m, "primal")
                d == get_obj_value(m, "dual")
                tol == f.loc.PADM_params.penalty_error
            IN ~(Abs(p - d) * tol.den < tol.num * Abs(p)) =>
                  \/ Code[f.pc].arg.kind # "None"
                  \/ \E k \in 1..Len(out) :
                        out[k][1] \in {"best_effort", "stationarity", "duality_gap"}

\* a configuration whose vectors differ in length or whose delta bounds cross
InvalidConfig(hp, ap) ==
    \/ Len(hp.demands) # Len(hp.PV_availabilities)
    \/ ap.lb > ap.ub

\* C8: under a configuration with mismatched vector lengths or lb > ub no
\* model ever holds a variable or a constraint.
C8_InvalidConfigBuildsNothing ==
    InvalidConfig(house_params, attack_params) =>
        \A id \in DOMAIN models : models[id].vars = {} /\ models[id].constrs = {}

\* C9: bigM_attack and sos_attack return the same six named vectors, each of
\* length H, with demands[i] = total_demand * demands[i] and
\* changed_demands[i] = total_demand * demands[i] * (1 + delta[i]).
C9_SameNamedVectors ==
    \A f \in Running("bigM_attack") \cup Running("sos_attack") :
        Code[f.pc].ins = "return" =>
            LET m == models[f.hm]
                hp == m.house_params
                H == hours_num(hp)
                v == ResultDict(m, Code[f.pc].arg.keys)
            IN /\ DOMAIN v = {"demands", "changed_demands", "PV", "battery", "buy", "sell"}
               /\ \A k \in DOMAIN v : Len(v[k]) = H
               /\ \A i \in 1..H :
                     /\ v["demands"][i] = hp.total_demand * hp.demands[i]
                     /\ v["changed_demands"][i] =
                           hp.total_demand * hp.demands[i] * (1 + m.X.upper_level[i])

\* C10: for M at least every value of the assignment, the big-M rows and the
\* SOS1 sets pair the same (activity, slack) variables, 8 per hour and 2
\* scalar ones, and both accept the assignment exactly when no pair has both
\* members strictly positive.
C10_EncodingsAgree ==
    LET H == cs_in.H
        val == Assignment(H, cs_in.a)
        bigM == {r \in cs_out : r.enc = "bigM"}
        sos == {r \in cs_out : r.enc = "sos"}
        pairs == {<<c.var, c.con>> : c \in BigMPairs(H)}
    IN (bigM # {} /\ sos # {} /\ \A v \in PairVars(H) : val[v] <= cs_in.M) =>
          /\ pairs = {<<s.first, s.second>> : s \in SosPairs(H)}
          /\ Cardinality(pairs) = 8 * H + 2
          /\ \A b \in bigM, s \in sos :
                /\ b.accepts = s.accepts
                /\ b.accepts = (\A c \in pairs : ~(val[c[1]] > 0 /\ val[c[2]] > 0))

\* both encodings refuse the wraparound battery-balance pair of hour 0:
\* energy_battery[H-1] and slack_energy_battery[0] both positive
C10_Witness ==
    /\ Cardinality(cs_out) = 2
    /\ cs_in.H = 2
    /\ cs_in.M >= MaxVal
    /\ DOMAIN cs_in.a = {<<"primal", "energy_battery", 1>>, <<"aux", "slack_energy_battery", 0>>}
    /\ \A r \in cs_out : ~r.accepts

\* solver calls a PADM_attack frame can still make, from its line and counters:
\* one initial solve, then two per inner iteration, max_stationary_iter inner
\* iterations in each of max_penalty_iter outer iterations
PADMBudget(f) ==
    LET P == f.loc.PADM_params.max_penalty_iter
        S == f.loc.PADM_params.max_stationary_iter
        inner == 2 * ((P - f.loc.j) * S + (S - f.loc.i))
    IN CASE f.pc <= 693 -> 1 + 2 * P * S
         [] f.pc \in 694..697 -> 2 * P * S
         [] f.pc = 700 -> 2 * (P - f.loc.j) * S
         [] f.pc = 704 -> inner
         [] f.pc \in 706..709 -> inner + 2
         [] f.pc \in 710..716 -> inner + 1
         [] f.pc \in 717..723 -> inner
         [] f.pc = 732 -> 2 * (P - f.loc.j) * S
         [] OTHER -> 0

PADMFrames == {f \in Frames : f.op = "PADM_attack"}

\* the statements of PADM_attack by line: before the loops, one inner
\* iteration (704 to the inner check at 723), after the loops
PADMPrefix == <<686, 687, 688, 689, 690, 691, 692, 693, 694, 695, 696, 697>>

PADMBody == <<704, 706, 708, 709, 710, 711, 712, 714, 715, 716, 717, 718, 719, 723>>

PADMTail == <<738, 739, 740, 741, 742, 743>>

Pos(seq, x) == CHOOSE k \in 1..Len(seq) : seq[k] = x

\* statements a PADM_attack frame can still execute, the current one included
PADMRank(f) ==
    LET P == f.loc.PADM_params.max_penalty_iter
        S == f.loc.PADM_params.max_stationary_iter
        outer == 2 + S * Len(PADMBody)
        rest == (P - f.loc.j) * outer + Len(PADMTail)
        iters == (S - f.loc.i) * Len(PADMBody)
    IN CASE f.pc = 700 -> rest
         [] f.pc = 732 -> 1 + rest
         [] f.pc = 704 -> iters + 1 + rest
         [] f.pc \in {PADMBody[k] : k \in 2..Len(PADMBody)} ->
                iters + (Len(PADMBody) - Pos(PADMBody, f.pc) + 1) + 1 + rest
         [] f.pc \in {PADMTail[k] : k \in 1..Len(PADMTail)} ->
                Len(PADMTail) - Pos(PADMTail, f.pc) + 1
         [] OTHER ->
                (Len(PADMPrefix) - Pos(PADMPrefix, f.pc) + 1) + P * outer + Len(PADMTail)

\* the counters stay within the caps; budget and rank are never overdrawn
C12_Counters ==
    \A f \in PADMFrames :
        /\ PADMBudget(f) >= 0
        /\ PADMRank(f) >= 1
        /\ f.pc \in 704..732 => f.loc.j \in 1..f.loc.PADM_params.max_penalty_iter
        /\ f.pc \in 706..723 => f.loc.i \in 1..f.loc.PADM_params.max_stationary_iter

\* every statement uses up rank; a solve spends one unit of the budget and no
\* statement refills it
C12_Step ==
    (stack # <<>> /\ top.op = "PADM_attack" /\ stack' # <<>>) =>
        /\ PADMRank(stack'[1]) < PADMRank(stack[1])
        /\ PADMBudget(stack'[1]) <= PADMBudget(stack[1])
        /\ ins.ins = "solve" => PADMBudget(stack'[1]) = PADMBudget(stack[1]) - 1

\* C12: PADM_attack ends whatever the solver returns: it runs at most
\* max_penalty_iter outer iterations of at most max_stationary_iter inner
\* iterations each, so at most 1 + 2 * max_penalty_iter * max_stationary_iter
\* solver calls (the budget starts there, every solve spends one unit, nothing
\* refills it, and it never goes below zero); every statement it executes
\* lowers a rank that stays positive, so it cannot run forever.
C12_PADMTerminates == []C12_Counters /\ [][C12_Step]_vars

\* PADM_attack returns with both caps reached
C12_Witness ==
    \E f \in PADMFrames :
        /\ f.pc = 743
        /\ f.loc.j = f.loc.PADM_params.max_penalty_iter
        /\ f.loc.i = f.loc.PADM_params.max_stationary_iter
        /\ f.loc.PADM_params.max_penalty_iter > 1
        /\ f.loc.PADM_params.max_stationary_iter > 1

RECURSIVE Pow(_, _)
Pow(b, e) == IF e = 0 THEN 1 ELSE b * Pow(b, e - 1)

\* inside the loops the weight is initial_mu * increase_factor^(j-1), and the
\* two solves of an inner iteration minimise upper + mu * (primal - dual)
C13_Weight ==
    \A f \in PADMFrames :
        LET q == f.loc.PADM_params
        IN /\ f.pc \in 704..732 =>
                f.loc.mu = q.initial_mu * Pow(q.increase_factor, f.loc.j - 1)
           /\ f.pc \in {709, 716} =>
                models[f.hm].objective =
                    [expr |-> "PADM", sense |-> "MINIMIZE", arg |-> f.loc.mu]

\* the outer check (line 732) stops or escalates once; line 700 opens the next
\* outer iteration with i = 0; no other statement inside the loops touches mu
C13_Step ==
    (stack # <<>> /\ top.op = "PADM_attack" /\ stack' # <<>>) =>
        LET f == stack[1]
            g == stack'[1]
            q == f.loc.PADM_params
            p == get_obj_value(cur, "primal")
            d == get_obj_value(cur, "dual")
            stop == \/ Abs(p - d) * q.penalty_error.den < q.penalty_error.num * Abs(p)
                    \/ f.loc.j >= q.max_penalty_iter
        IN /\ f.pc = 732 =>
                IF stop THEN g.pc = 738 /\ g.loc.mu = f.loc.mu
                ELSE g.pc = 700 /\ g.loc.mu = f.loc.mu * q.increase_factor
           /\ f.pc = 700 => g.pc = 704 /\ g.loc.i = 0 /\ g.loc.j = f.loc.j + 1
           /\ f.pc \in 700..743 /\ f.pc # 732 => g.loc.mu = f.loc.mu

\* C13: after each inner loop whose outer check yields a decision, PADM_attack
\* stops iff |primal - dual| / |primal| < penalty_error or j has reached
\* max_penalty_iter; otherwise mu is multiplied by increase_factor once and a
\* new inner loop starts with i = 0.  mu changes nowhere else, so in outer
\* iteration j the working objective uses initial_mu * increase_factor^(j-1).
C13_OuterTransition == []C13_Weight /\ [][C13_Step]_vars

\* step (a) of the second outer iteration is about to solve with the weight doubled
C13_Witness ==
    \E f \in PADMFrames :
        /\ f.pc = 709
        /\ f.loc.j = 2
        /\ f.loc.mu = f.loc.PADM_params.initial_mu * f.loc.PADM_params.increase_factor
        /\ models[f.hm].objective.arg = f.loc.mu

\* previous minus new value of every component of one snapshot
Decreases(prev, new) ==
    UNION {IF k \in ScalarKeys THEN {prev[k] - new[k]}
           ELSE {prev[k][n] - new[k][n] : n \in 1..Len(prev[k])} : k \in DOMAIN prev}

\* previous minus new value of every component of the three snapshots of frame f
AllDecreases(f) ==
    Decreases(f.loc.primal_values, f.loc.new_primal_values)
    \cup Decreases(f.loc.dual_values, f.loc.new_dual_values)
    \cup Decreases(f.loc.upper_level_values, f.loc.new_upper_level_values)

C14_Step ==
    (stack # <<>> /\ top.op = "PADM_attack" /\ top.pc = 723 /\ stack' # <<>>) =>
        LET f == stack[1]
            g == stack'[1]
            q == f.loc.PADM_params
            exit == \/ \A x \in AllDecreases(f) : x < q.stationary_error
                    \/ f.loc.i >= q.max_stationary_iter
        IN /\ g.pc = IF exit THEN 732 ELSE 704
           /\ g.loc.primal_values = f.loc.new_primal_values
           /\ g.loc.dual_values = f.loc.new_dual_values
           /\ g.loc.upper_level_values = f.loc.new_upper_level_values
           /\ g.loc.i = f.loc.i

\* C14: the inner check (lines 723-731) leaves the inner loop iff every
\* component of the primal, dual and upper-level snapshots decreased by less
\* than stationary_error (previous minus new), or i has reached
\* max_stationary_iter; in either case the three snapshots become the new values.
C14_InnerExit == [][C14_Step]_vars

\* the inner loop goes round again after its first iteration: some component
\* decreased by stationary_error or more, and the snapshots were replaced
C14_Witness ==
    \E f \in PADMFrames :
        /\ f.pc = 704
        /\ f.loc.i = 1
        /\ f.loc.primal_values = f.loc.new_primal_values
        /\ f.loc.dual_values = f.loc.new_dual_values
        /\ f.loc.upper_level_values = f.loc.new_upper_level_values

\* C15: in PADM_attack every pin of the dual group holds the recorded dual
\* snapshot dual_values, in the first inner iteration of an outer iteration as
\* in any other; from the outer and inner loop heads up to the pin (lines
\* 700-708) the solver's dual values are that snapshot.
C15_DualPinIsSnapshot ==
    \A f \in Running("PADM_attack") :
        LET m == models[f.hm]
        IN /\ \A p \in m.pins : p.name = "dual" => p.vals = f.loc.dual_values
           /\ f.pc \in 700..708 => get_values(m, "dual") = f.loc.dual_values

\* step (a) of the first inner iteration of the second outer iteration is
\* about to solve with the dual group pinned to nonzero values
C15_Witness ==
    \E f \in Running("PADM_attack") :
        /\ f.pc = 709
        /\ f.loc.j = 2
        /\ f.loc.i = 1
        /\ \E p \in models[f.hm].pins :
              p.name = "dual" /\ \E n \in DOMAIN p.vals["eq_demand"] : p.vals["eq_demand"][n] # 0

\* the auxiliary model holds upper-level and primal rows only; its solve for
\* hour i maximises delta[i] alone with the bounds of hours 0..i-1 collected,
\* and the collected value is that solve's delta[i]; H bounds are returned
C16_Auxiliary ==
    \A f \in Running("get_ub_valid_ineq") :
        LET m == models[f.hm]
            H == hours_num(m.house_params)
        IN /\ {r[1] : r \in m.constrs} \subseteq {"upper_level", "primal"}
           /\ m.sos = {} /\ m.pins = {} /\ m.cut = None
           /\ f.pc \in {667, 668} =>
                /\ m.objective = [expr |-> "delta", sense |-> "MAXIMIZE", arg |-> f.loc.i]
                /\ Len(f.loc.ub) = f.loc.i
                /\ f.loc.i \in 0..(H - 1)
           /\ (f.pc = 668 /\ HasSol(m)) =>
                get_obj_value(m, None) = m.X.upper_level[f.loc.i + 1]
           /\ f.pc = 669 => Len(f.loc.ub) = H

\* the main model gets its one cut, built from all H bounds, before it is
\* solved, and is solved with no auxiliary call in progress
C16_Main ==
    \A f \in Running("sos_valid_ineq_attack") :
        LET m == models[f.hm]
            H == hours_num(m.house_params)
        IN /\ f.pc = 680 => Len(f.loc.ub) = H /\ m.cut = None
           /\ f.pc = 681 =>
                /\ Len(stack) = 1
                /\ m.cut = f.loc.ub
                /\ Len(m.cut) = H
                /\ Cardinality({r \in m.constrs : r[1] = "valid_ineq"}) = 1

\* the auxiliary call changes nothing of the caller's model, and collects one
\* bound per solve
C16_Step ==
    /\ (Len(stack) = 2 /\ stack' # <<>>) => models'[stack[1].hm] = models[stack[1].hm]
    /\ (stack # <<>> /\ top.op = "get_ub_valid_ineq" /\ top.pc > 664
            /\ Len(stack') = Len(stack)) =>
          LET g == stack'[Len(stack')]
          IN IF top.pc = 668 THEN Len(g.loc.ub) = Len(top.loc.ub) + 1
             ELSE g.loc.ub = top.loc.ub

\* C16: get_ub_valid_ineq solves once per hour i, maximising delta[i] alone, on
\* a model of its own holding only upper-level and primal constraints, and
\* returns H bounds; sos_valid_ineq_attack has all H before it adds its single
\* cut, built from them, and solves; the auxiliary solves leave the main
\* model unchanged.
C16_ValidIneqBounds == []C16_Auxiliary /\ []C16_Main /\ [][C16_Step]_vars

\* the main model of sos_valid_ineq_attack is about to be solved with a cut
\* built from two bounds, not all equal
C16_Witness ==
    \E f \in Running("sos_valid_ineq_attack") :
        /\ f.pc = 681
        /\ Len(f.loc.ub) = 2
        /\ f.loc.ub[1] # f.loc.ub[2]
        /\ models[f.hm].cut = f.loc.ub

\* C17: every battery-balance row of hour i (primal eq_battery, dual
\* energy_battery, aux slack_energy_battery, and the big-M / SOS1 pair of
\* slack_energy_battery[i]) takes its predecessor-hour variables at index
\* (i-1) mod H, hour 0 being coupled to hour H-1; the state of charge paired
\* with dual constraint i is energy_battery[(i-1) mod H], the index of the
\* limit_battery multiplier in that constraint.
C17_CircularIndexing ==
    \A id \in DOMAIN models :
        LET m == models[id]
            H == hours_num(m.house_params)
            paired == {r \in m.battery : r.row[1] \in {"bigM", "sos"}}
            duals == {r \in m.battery : r.row[1] \in {"dual", "aux"}}
        IN /\ \A r \in m.battery :
                 /\ r.i \in 0..(H - 1)
                 /\ \A v \in r.uses : v[3] = (r.i - 1) % H
           /\ \A r \in paired :
                 /\ r.uses = {<<"primal", "energy_battery", (r.i - 1) % H>>}
                 /\ \A d \in duals :
                       d.i = r.i => <<"dual", "limit_battery", (r.i - 1) % H>> \in d.uses
           /\ \A g \in {"primal", "dual", "aux", "bigM", "sos"} :
                 (\E r \in m.battery : r.row[1] = g) =>
                     \A i \in 0..(H - 1) : \E r \in m.battery : r.row[1] = g /\ r.i = i

\* a two-hour big-M model: the rows of hour 0 take their predecessor at hour 1
C17_Witness ==
    \E id \in DOMAIN models :
        /\ hours_num(models[id].house_params) = 2
        /\ {r.row[1] : r \in models[id].battery} = {"primal", "dual", "aux", "bigM"}
        /\ \A r \in models[id].battery : r.i = 0 => \A v \in r.uses : v[3] = 1

\* the groups registered as fixed are exactly groups, each with one batch of
\* pin rows in the solver model, and the model holds no other pin row
PinnedExactly(m, groups) ==
    /\ DOMAIN m.fix = groups
    /\ {p.name : p \in m.pins} = groups
    /\ Cardinality(m.pins) = Cardinality(groups)
    /\ {p.id : p \in m.pins} = UNION {m.fix[g] : g \in groups}

\* C18: in PADM_attack the initial solve (line 693) runs with no group pinned,
\* each step (a) solve (line 709) with exactly the dual group pinned, each step
\* (b) solve (line 716) with exactly the primal and upper_level groups pinned;
\* at the head of every inner iteration (704), at every outer check (732) and
\* at return (743) constrs["fix"] is empty and the model holds no pin row.
C18_PinInvariant ==
    \A f \in Running("PADM_attack") :
        LET m == models[f.hm]
        IN /\ f.pc = 693 => PinnedExactly(m, {})
           /\ f.pc = 709 => PinnedExactly(m, {"dual"})
           /\ f.pc = 716 => PinnedExactly(m, {"primal", "upper_level"})
           /\ f.pc \in {704, 732, 743} => PinnedExactly(m, {})

\* the outer check of the second outer iteration, reached with nothing pinned
\* after both steps of two inner iterations
C18_Witness ==
    \E f \in Running("PADM_attack") :
        /\ f.pc = 732
        /\ f.loc.j = 2
        /\ f.loc.i = 2
        /\ models[f.hm].pins = {}
        /\ models[f.hm].status = "OPTIMAL"

\* C19: when the inner check is reached below the iteration cap and its
\* tolerance test passes, no component of the three snapshots differs from its
\* previous value by stationary_error or more, upwards or downwards.
C19_ToleranceExitIsStationary ==
    \A f \in PADMFrames :
        LET q == f.loc.PADM_params
        IN (/\ f.pc = 723
            /\ f.loc.i < q.max_stationary_iter
            /\ \A x \in AllDecreases(f) : x < q.stationary_error) =>
                \A x \in AllDecreases(f) : Abs(x) < q.stationary_error

\* C20: no outer check of PADM_attack ends in an error raised by the
\* computation of the relative duality gap.
C20_OuterCheckDecides ==
    ~(ret.kind = "raise" /\ ret.op = "PADM_attack" /\ ret.exc = "ZeroDivisionError")

\* cost_buy * total_demand * sum(demands)
BaselineCost(hp) == hp.cost_buy * hp.total_demand * SeqSum(hp.demands)

\* buy every hour's demand, install and move nothing
BuyAll(hp) ==
    [v \in {PrimalVars(hours_num(hp))[k] : k \in 1..Len(PrimalVars(hours_num(hp)))} |->
        IF v[1] = "energy_buy" THEN hp.demands[v[2] + 1] * hp.total_demand ELSE 0]

\* both balance multipliers at cost_buy, limit_PV at -cost_buy, limit_battery at 0
BuyPrice(hp) ==
    [v \in {DualVars(hours_num(hp))[k] : k \in 1..Len(DualVars(hours_num(hp)))} |->
        CASE v[1] \in {"eq_demand", "eq_battery"} -> hp.cost_buy
          [] v[1] = "limit_PV" -> -hp.cost_buy
          [] v[1] = "limit_battery" -> 0]

====
